---------------------------- MODULE Spec2Model ----------------------------
(***************************************************************************)
(* Michaelhouse leave system: the eligibility engine (LeaveProcessor),     *)
(* the date-window part of the request parser (LeaveRequestParser) and the *)
(* store it runs against in production (DatabaseTools).                    *)
(*                                                                         *)
(* Time.  A datetime is the number of minutes since 00:00 of day 0; a date *)
(* is a day number.  Day 0 is a Thursday; weekdays are numbered as Python  *)
(* does (Monday = 0 ... Saturday = 5, Sunday = 6).                         *)
(*                                                                         *)
(* Concurrency.  Every parent request is handled by one of the workers in  *)
(* Procs.  A worker's position between two store calls is its pc; each     *)
(* store call (one SQL statement, or the one transaction opened and        *)
(* committed inside tool_leave_update) is one atomic step.  Reads of       *)
(* tables that no operation of the program writes (parents, students,      *)
(* term_config, closed_weekends) are folded into the step that follows     *)
(* them.                                                                   *)
(***************************************************************************)
EXTENDS Integers, Sequences, FiniteSets, TLC

(***************************************************************************)
(* Bounds of the model                                                     *)
(***************************************************************************)
MaxRequests == 3

MaxHmCommands == 1

\* the phrases of a text given to _determine_leave_type
MaxPhrases == 3

\* the last day that is taken for today or for a base date
MaxDay == 13

\* the words of a text given to _extract_student_identifier
MaxWords == 4

Procs == {1, 2}

(***************************************************************************)
(* Calendar                                                                *)
(***************************************************************************)
Saturday == 5

Friday == 4

RestrictionDays == 14

NoDate == 0 - 1000000

NoBalance == 0 - 99

\* datetime(day, hour, minute), in minutes
dt(day, hour, minute) == day * (24 * 60) + hour * 60 + minute

\* datetime.date()
date(t) == t \div (24 * 60)

\* datetime.replace(hour=.., minute=..)
replace(t, hour, minute) == dt(date(t), hour, minute)

\* datetime.weekday(); day 0 is a Thursday (3)
weekday(t) == (date(t) + 3) % 7

(***************************************************************************)
(* LeaveType and LeaveStatus values                                        *)
(***************************************************************************)
OVERNIGHT == "Overnight"

FRIDAY_SUPPER == "Friday Supper"

DAY_LEAVE == "Day Leave"

SPECIAL == "Special"

LeaveType == {OVERNIGHT, FRIDAY_SUPPER, DAY_LEAVE, SPECIAL}

PENDING == "Pending"

APPROVED == "Approved"

CANCELLED == "Cancelled"

REJECTED == "Rejected"

SPECIAL_PENDING == "Special Leave Pending"

(***************************************************************************)
(* Rows of the tables that the program only reads                          *)
(***************************************************************************)
parents ==
  { [parent_id |-> "PARENT_001", phone |-> "27603174174", email |-> "john.smith@example.com"],
    [parent_id |-> "PARENT_002", phone |-> "27821234567", email |-> "jane.doe@example.com"] }

students ==
  { [admin_number |-> "12345", first_name |-> "James", last_name |-> "Smith",
     house |-> "Finningley", block |-> "C"],
    [admin_number |-> "67890", first_name |-> "Michael", last_name |-> "Doe",
     house |-> "Shepstone", block |-> "E"] }

student_parents == { <<"12345", "PARENT_001">>, <<"67890", "PARENT_002">> }

housemasters ==
  { [hm_id |-> "HM_001", house |-> "Finningley", email |-> "hm.finningley@michaelhouse.org",
     phone |-> "27831112222"],
    [hm_id |-> "HM_002", house |-> "Shepstone", email |-> "hm.shepstone@michaelhouse.org",
     phone |-> "none"] }

\* term_config: the current term, days 1 .. 10 (a Friday to a Sunday)
term_config == { [term_number |-> 1, start_date |-> 1, end_date |-> 10] }

\* closed_weekends: day 2 is the first Saturday of the term
closed_weekends == { [block |-> "E", weekend_date |-> 2, term_number |-> 1],
                     [block |-> "D", weekend_date |-> 2, term_number |-> 1] }

AdminNumbers == { s.admin_number : s \in students }

\* the pairs <<a, b>> of strings of the model with a contained in b,
\* compared without case, as LIKE '%a%' over LOWER(..) does
SubstringPairs == { <<"James", "James">>, <<"Smith", "Smith">>,
                    <<"Michael", "Michael">>, <<"Doe", "Doe">> }

Like(name, identifier) == <<identifier, name>> \in SubstringPairs

(***************************************************************************)
(* LeaveRequestParser: the category of a message                           *)
(* A lower-cased text is the set of the phrases that occur in it, each     *)
(* apart from the others; "indicator in text" is true when the indicator   *)
(* is one of them or a substring of one of them.                           *)
(***************************************************************************)
SPECIAL_INDICATORS == {"special leave", "special permission", "emergency", "urgent"}

OVERNIGHT_INDICATORS ==
  {"overnight", "sleep over", "stay over", "saturday night", "weekend leave"}

SUPPER_INDICATORS == {"friday supper", "supper", "friday evening", "friday night out"}

DAY_LEAVE_INDICATORS == {"day leave", "day trip", "saturday out", "sunday out", "day out"}

\* 'saturday' in text or 'sunday' in text or 'weekend' in text
WeekendWords == {"saturday", "sunday", "weekend"}

\* the phrases of the texts: the indicators and two words that are none
Phrases ==
  SPECIAL_INDICATORS \cup OVERNIGHT_INDICATORS \cup SUPPER_INDICATORS
    \cup DAY_LEAVE_INDICATORS \cup WeekendWords \cup {"leave", "friday"}

\* the pairs <<a, b>> of different phrases with a a substring of b
PhraseSubstrings ==
  { <<"supper", "friday supper">>,
    <<"day out", "saturday out">>,
    <<"day out", "sunday out">>,
    <<"saturday", "saturday night">>,
    <<"saturday", "saturday out">>,
    <<"sunday", "sunday out">>,
    <<"weekend", "weekend leave">>,
    <<"leave", "special leave">>,
    <<"leave", "weekend leave">>,
    <<"leave", "day leave">>,
    <<"friday", "friday supper">>,
    <<"friday", "friday evening">>,
    <<"friday", "friday night out">> }

\* indicator in text
IsIn(indicator, text) ==
  \E phrase \in text : phrase = indicator \/ <<indicator, phrase>> \in PhraseSubstrings

\* any(indicator in text for indicator in indicators)
any(indicators, text) == \E indicator \in indicators : IsIn(indicator, text)

\* mutant: the day-leave indicators are tried before the overnight ones
_determine_leave_type_day_first(text) ==
  IF any(SPECIAL_INDICATORS, text) THEN SPECIAL
  ELSE IF any(DAY_LEAVE_INDICATORS, text) THEN DAY_LEAVE
  ELSE IF any(OVERNIGHT_INDICATORS, text) THEN OVERNIGHT
  ELSE IF any(SUPPER_INDICATORS, text) THEN FRIDAY_SUPPER
  ELSE IF IsIn("saturday", text) \/ IsIn("sunday", text) \/ IsIn("weekend", text)
    THEN DAY_LEAVE
  ELSE OVERNIGHT

_determine_leave_type(text) ==
  IF any(SPECIAL_INDICATORS, text) THEN SPECIAL
  ELSE IF any(OVERNIGHT_INDICATORS, text) THEN OVERNIGHT
  ELSE IF any(SUPPER_INDICATORS, text) THEN FRIDAY_SUPPER
  ELSE IF any(DAY_LEAVE_INDICATORS, text) THEN DAY_LEAVE
  ELSE IF IsIn("saturday", text) \/ IsIn("sunday", text) \/ IsIn("weekend", text)
    THEN DAY_LEAVE
  ELSE OVERNIGHT

(***************************************************************************)
(* LeaveRequestParser: the student identifier                              *)
(* A text is the sequence of its words, with one space between them.  An   *)
(* identifier is the sequence of the words of the match, <<>> for None.    *)
(***************************************************************************)
\* the words that \b(\d{5})\b matches
AdminNumberWords == {"12345"}

\* the words that [A-Z][a-z]+ matches as a whole
CapitalizedWords == {"Can", "James", "Smith"}

LowerCaseWords == {"for", "my", "son", "student", "leave"}

Words == AdminNumberWords \cup CapitalizedWords \cup LowerCaseWords

\* the leftmost of the positions S
Leftmost(S) == CHOOSE i \in S : \A j \in S : i <= j

\* word i of the text matches [A-Z][a-z]+
IsCapitalized(text, i) == i <= Len(text) /\ text[i] \in CapitalizedWords

\* word i of the text matches [A-Z][a-z]+ under re.IGNORECASE
IsWord(text, i) == i <= Len(text) /\ text[i] \in CapitalizedWords \cup LowerCaseWords

\* the positions where for\s+([A-Z][a-z]+(?:\s+[A-Z][a-z]+)?) matches
ForMatches(text) ==
  { i \in 1..Len(text) : text[i] = "for" /\ IsCapitalized(text, i + 1) }

\* the positions where \b([A-Z][a-z]+\s+[A-Z][a-z]+)\b matches
NameMatches(text) ==
  { i \in 1..Len(text) : IsCapitalized(text, i) /\ IsCapitalized(text, i + 1) }

\* the positions where (?:for|my son|student)\s+([A-Z][a-z]+) matches
\* under re.IGNORECASE
FirstNameMatches(text) ==
  { i \in 1..Len(text) :
      \/ text[i] \in {"for", "student"} /\ IsWord(text, i + 1)
      \/ /\ text[i] = "my"
         /\ i + 1 <= Len(text)
         /\ text[i + 1] = "son"
         /\ IsWord(text, i + 2) }

\* mutant: the two capitalized words are looked for before the number
_extract_student_identifier_name_first(text) ==
  LET admin_matches == { i \in 1..Len(text) : text[i] \in AdminNumberWords }
  IN  IF NameMatches(text) # {}
        THEN LET i == Leftmost(NameMatches(text)) IN <<text[i], text[i + 1]>>
      ELSE IF admin_matches # {}
        THEN <<text[Leftmost(admin_matches)]>>
      ELSE <<>>

_extract_student_identifier(text) ==
  LET admin_matches == { i \in 1..Len(text) : text[i] \in AdminNumberWords }
  IN  IF admin_matches # {}
        THEN <<text[Leftmost(admin_matches)]>>
      ELSE IF ForMatches(text) # {}
        THEN LET i == Leftmost(ForMatches(text))
             IN  IF IsCapitalized(text, i + 2)
                   THEN <<text[i + 1], text[i + 2]>>
                   ELSE <<text[i + 1]>>
      ELSE IF NameMatches(text) # {}
        THEN LET i == Leftmost(NameMatches(text)) IN <<text[i], text[i + 1]>>
      ELSE IF FirstNameMatches(text) # {}
        THEN LET i == Leftmost(FirstNameMatches(text))
             IN  IF text[i] = "my" THEN <<text[i + 2]>> ELSE <<text[i + 1]>>
      ELSE <<>>

(***************************************************************************)
(* LeaveRequestParser: relative dates                                      *)
(* A date string is its qualifier ("this", "next" or "none") and the name  *)
(* in it: a weekday, "today", "tomorrow" or "weekend".                     *)
(***************************************************************************)
weekdays ==
  [monday |-> 0, tuesday |-> 1, wednesday |-> 2, thursday |-> 3,
   friday |-> 4, saturday |-> 5, sunday |-> 6]

\* today is datetime.now() at 00:00; a string with no weekday name goes to
\* _parse_date_string, which finds no format for it and returns None
_parse_relative_date(date_str, today) ==
  IF date_str.name = "today" THEN today
  ELSE IF date_str.name = "tomorrow" THEN today + 24 * 60
  ELSE IF date_str.name \in DOMAIN weekdays
    THEN LET current_weekday == weekday(today)
             days_ahead == weekdays[date_str.name] - current_weekday
             days == IF date_str.qualifier = "next"
                       THEN days_ahead + 7
                     ELSE IF date_str.qualifier = "this" \/ days_ahead < 0
                       THEN IF days_ahead <= 0 THEN days_ahead + 7 ELSE days_ahead
                     ELSE days_ahead
         IN  today + days * (24 * 60)
  ELSE NoDate

(***************************************************************************)
(* LeaveRequestParser: the date window                                     *)
(* A date expression of a message is "none" (no date found), "single" (one *)
(* date, absolute or relative, resolved to day d1) or "range" (two         *)
(* absolute dates d1, d2).                                                 *)
(***************************************************************************)
_infer_date_range(base_date, leave_type) ==
  IF leave_type = OVERNIGHT /\ weekday(base_date) = Saturday
    THEN <<replace(base_date, 14, 0), replace(base_date + 24 * 60, 18, 50)>>
  ELSE IF leave_type = FRIDAY_SUPPER /\ weekday(base_date) = Friday
    THEN <<replace(base_date, 17, 0), replace(base_date, 21, 0)>>
  ELSE <<replace(base_date, 9, 0), replace(base_date, 17, 0)>>

_apply_leave_times(start_date, end_date, leave_type) ==
  IF start_date = NoDate \/ end_date = NoDate THEN <<start_date, end_date>>
  ELSE IF leave_type = OVERNIGHT
    THEN <<replace(start_date, 14, 0), replace(end_date, 18, 50)>>
  ELSE IF leave_type = FRIDAY_SUPPER
    THEN <<replace(start_date, 17, 0), replace(end_date, 21, 0)>>
  ELSE IF leave_type = DAY_LEAVE
    THEN <<replace(start_date, 9, 0), replace(end_date, 17, 0)>>
  ELSE <<start_date, end_date>>

_extract_dates(expr, leave_type) ==
  IF expr.kind = "range"
    THEN _apply_leave_times(dt(expr.d1, 0, 0), dt(expr.d2, 0, 0), leave_type)
  ELSE IF expr.kind = "single"
    THEN _infer_date_range(dt(expr.d1, 0, 0), leave_type)
  ELSE <<NoDate, NoDate>>

\* a message: the subject identifier found in it ("none" when no pattern
\* matches), the category its keywords give and its date expression
parse_request(message_text) ==
  LET dates == _extract_dates(message_text.dates, message_text.leave_type)
  IN  [student_identifier |-> message_text.student_identifier,
       leave_type |-> message_text.leave_type,
       start_date |-> dates[1],
       end_date |-> dates[2]]

(***************************************************************************)
(* DatabaseTools: the queries that read                                    *)
(***************************************************************************)
\* "none" when no row is found
tool_parent_phone_check(phone_number) ==
  IF \E p \in parents : p.phone = phone_number
    THEN (CHOOSE p \in parents : p.phone = phone_number).parent_id
    ELSE "none"

tool_parent_email_check(email_address) ==
  IF \E p \in parents : p.email = email_address
    THEN (CHOOSE p \in parents : p.email = email_address).parent_id
    ELSE "none"

\* mutant: every sender is taken for the housemaster of Finningley
tool_hm_auth_house_check_anyone(identifier) ==
  [hmID |-> "HM_001", assignedHouse |-> "Finningley"]

tool_hm_auth_house_check(identifier) ==
  IF \E h \in housemasters : h.email = identifier \/ h.phone = identifier
    THEN LET h == CHOOSE h \in housemasters : h.email = identifier \/ h.phone = identifier
         IN  [hmID |-> h.hm_id, assignedHouse |-> h.house]
    ELSE [hmID |-> "none", assignedHouse |-> "none"]

\* mutant: the query does not join student_parents
LinkedStudents_any_parent(parent_auth_id, requested_student_identifier) ==
  { s \in students :
      \/ s.admin_number = requested_student_identifier
      \/ Like(s.first_name, requested_student_identifier)
      \/ Like(s.last_name, requested_student_identifier) }

\* the students the linkage query selects for a parent and an identifier
LinkedStudents(parent_auth_id, requested_student_identifier) ==
  { s \in students :
      /\ <<s.admin_number, parent_auth_id>> \in student_parents
      /\ \/ s.admin_number = requested_student_identifier
         \/ Like(s.first_name, requested_student_identifier)
         \/ Like(s.last_name, requested_student_identifier) }

\* the record of student s with the balances bal of the leave_balances row
StudentRecord(s, bal) ==
  [adminNumber |-> s.admin_number, firstName |-> s.first_name,
   lastName |-> s.last_name, house |-> s.house, block |-> s.block,
   balances |-> [overnight |-> bal[s.admin_number].overnight,
                 fridaySupper |-> bal[s.admin_number].fridaySupper]]

\* term: the query for the current term finds a row
tool_leave_balance_check(term, bal, student_admin_number, leave_type) ==
  IF ~ term THEN 0
  ELSE IF student_admin_number \notin DOMAIN bal THEN 0
  ELSE IF leave_type = "Overnight" THEN bal[student_admin_number].overnight
  ELSE bal[student_admin_number].fridaySupper

ClosedWeekendReason == "Falls on closed weekend"

OutsideTermReason == "Dates fall outside of term dates"

tool_date_validity_check(student_block, start_date, end_date) ==
  IF ~ \E t \in term_config :
         \/ t.start_date <= date(start_date) /\ date(start_date) <= t.end_date
         \/ t.start_date <= date(end_date) /\ date(end_date) <= t.end_date
    THEN [isValid |-> FALSE, reason |-> OutsideTermReason]
  ELSE IF /\ student_block \in {"E", "D"}
          /\ \E cw \in closed_weekends :
                /\ cw.block = student_block
                /\ date(start_date) <= cw.weekend_date
                /\ cw.weekend_date <= date(end_date)
    THEN [isValid |-> FALSE, reason |-> ClosedWeekendReason]
  ELSE [isValid |-> TRUE, reason |-> ""]

\* mutant: a restriction that ends at the start of the window does not count
tool_restriction_check_strict(restr, student_admin_number, start_date, end_date) ==
  \E lr \in restr :
     /\ lr.student_admin_number = student_admin_number
     /\ lr.active
     /\ lr.start_date <= end_date
     /\ lr.end_date > start_date

\* mutant: no restriction is ever found
tool_restriction_check_never(restr, student_admin_number, start_date, end_date) == FALSE

\* LeaveSystemTools.tool_restriction_check, for the list of restrictions the
\* mock table holds for the student
placeholder_restriction_check(restrictions, start_date, end_date) ==
  \E restriction \in restrictions :
     ~ (end_date < restriction.start_date \/ start_date > restriction.end_date)

tool_restriction_check(restr, student_admin_number, start_date, end_date) ==
  \E lr \in restr :
     /\ lr.student_admin_number = student_admin_number
     /\ lr.active
     /\ lr.start_date <= end_date
     /\ lr.end_date >= start_date

(***************************************************************************)
(* State                                                                   *)
(***************************************************************************)
VARIABLES
  leave_balances,   \* student admin number -> the current term's row
  leave_register,   \* the rows of leave_register, in insertion order
  leave_restrictions, \* the rows of leave_restrictions
  pc,               \* worker -> its position in process_parent_request
  request,          \* worker -> the arguments of its last invocation
  leave_request,    \* worker -> the LeaveRequest it built (NoRequest before)
  deduct_balance,   \* worker -> argument deduct_balance of _approve_leave
  result,           \* worker -> what process_parent_request returned last
  hm_request,       \* the arguments of the last call of process_housemaster_request
  hm_result,        \* what process_housemaster_request returned last
  nreq,             \* parent requests received so far
  nhm,              \* housemaster commands received so far
  term_info,        \* worker -> the current-term query of its transaction finds a row
  email,            \* worker -> the special-leave e-mail its invocation printed
  parser_call,      \* the last call of a LeaveRequestParser method, with its arguments
  parser_return     \* what that call returned

vars == <<leave_balances, leave_register, leave_restrictions, pc, request,
          leave_request, deduct_balance, result, hm_request, hm_result, nreq, nhm,
          term_info, email, parser_call, parser_return>>

parser_vars == <<parser_call, parser_return>>

store == <<leave_balances, leave_register, leave_restrictions>>

NoRequest == [none |-> TRUE]

NoArguments == [message_text |-> [student_identifier |-> "none", leave_type |-> "none",
                                  dates |-> [kind |-> "none", d1 |-> 0, d2 |-> 0]],
                sender_identifier |-> "none", channel |-> "none", n |-> 0]

(***************************************************************************)
(* Inputs                                                                  *)
(***************************************************************************)
\* A message: the subject identifier found in it ("none" when no pattern
\* matches), the category its keywords give and its date expression.
\* day 2: closed Saturday; day 8: Friday; day 9: Saturday;
\* day 12: Tuesday after the term
DateExprs == { [kind |-> "single", d1 |-> d, d2 |-> d] : d \in {2, 8, 9, 12} }

NoDateExpr == [kind |-> "none", d1 |-> 0, d2 |-> 0]

Message(identifier, leave_type, dates) ==
  [student_identifier |-> identifier, leave_type |-> leave_type, dates |-> dates]

\* the requests of the registered parent of student 67890, by WhatsApp
LinkedRequests ==
  { [message_text |-> Message("67890", t, d), sender_identifier |-> "27821234567",
     channel |-> "whatsapp"] : t \in LeaveType, d \in DateExprs }
  \cup { [message_text |-> Message("Michael", OVERNIGHT, NoDateExpr),
          sender_identifier |-> "27821234567", channel |-> "whatsapp"] }

\* requests that end before a LeaveRequest is built: a sender unknown to the
\* channel's lookup (an unregistered number, an e-mail address sent over
\* WhatsApp, a phone number sent by e-mail), no identifier, somebody else's son
UnlinkedRequests ==
  { [message_text |-> Message("67890", OVERNIGHT, [kind |-> "single", d1 |-> 9, d2 |-> 9]),
     sender_identifier |-> s[1], channel |-> s[2]] :
       s \in { <<"99999999999", "whatsapp">>, <<"jane.doe@example.com", "whatsapp">>,
               <<"27821234567", "email">> } }
  \cup { [message_text |-> Message(i, DAY_LEAVE, [kind |-> "single", d1 |-> 9, d2 |-> 9]),
          sender_identifier |-> "jane.doe@example.com", channel |-> "email"] :
            i \in {"none", "12345", "James"} }

Requests == LinkedRequests \cup UnlinkedRequests

\* the requests of the concurrent specification: Overnight and Friday Supper
\* for the weekend of days 8 and 9, by phone and by e-mail
ConcurrentRequests ==
  { [message_text |-> Message("67890", OVERNIGHT, [kind |-> "single", d1 |-> 9, d2 |-> 9]),
     sender_identifier |-> "27821234567", channel |-> "whatsapp"],
    [message_text |-> Message("Michael", OVERNIGHT, [kind |-> "single", d1 |-> 9, d2 |-> 9]),
     sender_identifier |-> "jane.doe@example.com", channel |-> "email"],
    [message_text |-> Message("67890", FRIDAY_SUPPER, [kind |-> "single", d1 |-> 8, d2 |-> 8]),
     sender_identifier |-> "27821234567", channel |-> "whatsapp"],
    [message_text |-> Message("67890", DAY_LEAVE, [kind |-> "single", d1 |-> 9, d2 |-> 9]),
     sender_identifier |-> "27821234567", channel |-> "whatsapp"] }

(***************************************************************************)
(* LeaveProcessor: results                                                 *)
(***************************************************************************)
Result(status, reason, trigger_reason, lr, new_balance) ==
  [status |-> status, reason |-> reason, trigger_reason |-> trigger_reason,
   leave_request |-> lr, new_balance |-> new_balance]

NoResult == Result("none", "none", "none", NoRequest, NoBalance)

_reject_leave(lr, reason) ==
  Result("rejected", reason, "none", lr, NoBalance)

_route_to_special_leave(lr, trigger_reason) ==
  Result("special_pending", "none", trigger_reason, lr, NoBalance)

NonSaturdayReason == "Overnight leave requested for a night other than Saturday to Sunday"

RestrictedReason == "is currently restricted from weekend leave during this period"

InsufficientOvernightReason == "has insufficient overnight leave balance (0 remaining)"

InsufficientSupperReason == "has insufficient Friday Supper leave balance (0 remaining)"

ExplicitSpecialReason == "Special leave explicitly requested"

\* the 'message' of a result
result_message(r) ==
  IF r.status = "rejected" /\ r.reason = "authentication_failed"
    THEN "I couldn't verify your identity."
  ELSE IF r.status = "error" /\ r.reason = "parse_failed"
    THEN "I couldn't identify which student this request is for."
  ELSE IF r.status = "rejected" /\ r.reason = "student_linkage_failed"
    THEN "I couldn't find a student matching"
  ELSE IF r.status = "error" /\ r.reason = "missing_dates"
    THEN "I couldn't determine the dates for this leave request."
  ELSE IF r.status = "error"
    THEN "An error occurred while processing the leave."
  ELSE IF r.status = "approved"
    THEN "Thank you for submitting your request."
  ELSE IF r.status \in {"rejected", "special_pending"}
    THEN "Thank you for your request."
  ELSE ""

\* f"hm.{leave_request.student.house.lower()}@michaelhouse.org"
housemaster_email(house) ==
  IF house = "Shepstone" THEN "hm.shepstone@michaelhouse.org"
  ELSE IF house = "Finningley" THEN "hm.finningley@michaelhouse.org"
  ELSE "hm.@michaelhouse.org"

NoEmail == [to |-> "none"]

\* the e-mail that _route_to_special_leave prints
SpecialLeaveEmail(lr, trigger_reason) ==
  [to |-> housemaster_email(lr.student.house),
   student |-> lr.student.admin_number,
   house |-> lr.student.house,
   parent |-> lr.parent.auth_id,
   leave_type |-> lr.leave_type,
   start_date |-> lr.start_date,
   end_date |-> lr.end_date,
   trigger_reason |-> trigger_reason]

NoCall == [method |-> "none"]

NoReturn == [value |-> "none"]

\* mutant: both lookups are tried, whatever the channel
_authenticate_parent_any_channel(identifier, channel) ==
  IF tool_parent_phone_check(identifier) # "none"
    THEN tool_parent_phone_check(identifier)
    ELSE tool_parent_email_check(identifier)

_authenticate_parent(identifier, channel) ==
  IF channel = "whatsapp" THEN tool_parent_phone_check(identifier)
  ELSE IF channel = "email" THEN tool_parent_email_check(identifier)
  ELSE "none"

\* return r: the locals of the invocation are gone
Finish(p, r) ==
  /\ result' = [result EXCEPT ![p] = r]
  /\ pc' = [pc EXCEPT ![p] = "done"]
  /\ leave_request' = [leave_request EXCEPT ![p] = NoRequest]
  /\ deduct_balance' = [deduct_balance EXCEPT ![p] = FALSE]
  /\ term_info' = [term_info EXCEPT ![p] = TRUE]
  /\ email' = [email EXCEPT ![p] = IF r.status = "special_pending"
                                     THEN SpecialLeaveEmail(r.leave_request, r.trigger_reason)
                                     ELSE NoEmail]

\* go on to the next store call of the invocation
Continue(p, next_pc, deduct) ==
  /\ pc' = [pc EXCEPT ![p] = next_pc]
  /\ deduct_balance' = [deduct_balance EXCEPT ![p] = deduct]
  /\ UNCHANGED <<result, leave_request, term_info, email>>

(***************************************************************************)
(* process_parent_request: authentication, parsing, linkage                *)
(***************************************************************************)
process_parent_request(p, message_text, sender_identifier, channel) ==
  /\ pc[p] \in {"idle", "done", "raised"}
  /\ nreq < MaxRequests
  /\ nreq' = nreq + 1
  /\ request' = [request EXCEPT ![p] =
                   [message_text |-> message_text, sender_identifier |-> sender_identifier,
                    channel |-> channel, n |-> nreq + 1]]
  /\ LET parent_auth_id == _authenticate_parent(sender_identifier, channel)
         parsed_data == parse_request(message_text)
         linked == LinkedStudents(parent_auth_id, parsed_data.student_identifier)
     IN  IF parent_auth_id = "none"
           THEN Finish(p, Result("rejected", "authentication_failed", "none",
                                 NoRequest, NoBalance))
         ELSE IF parsed_data.student_identifier = "none"
           THEN Finish(p, Result("error", "parse_failed", "none", NoRequest, NoBalance))
         ELSE IF linked = {}
           THEN Finish(p, Result("rejected", "student_linkage_failed", "none",
                                 NoRequest, NoBalance))
         ELSE \E s \in linked, term \in BOOLEAN :
                LET student_record == StudentRecord(s, leave_balances)
                IN  /\ term_info' = [term_info EXCEPT ![p] = term]
                    /\ email' = [email EXCEPT ![p] = NoEmail]
                    /\ leave_request' = [leave_request EXCEPT ![p] =
                          [student |-> [admin_number |-> student_record.adminNumber,
                                        house |-> student_record.house,
                                        block |-> student_record.block,
                                        overnight_balance |-> student_record.balances.overnight,
                                        friday_supper_balance |-> student_record.balances.fridaySupper],
                           parent |-> [auth_id |-> parent_auth_id, channel |-> channel],
                           leave_type |-> parsed_data.leave_type,
                           start_date |-> parsed_data.start_date,
                           end_date |-> parsed_data.end_date,
                           status |-> PENDING]]
                    /\ pc' = [pc EXCEPT ![p] = "eligibility"]
                    /\ result' = [result EXCEPT ![p] = NoResult]
                    /\ UNCHANGED deduct_balance
  /\ UNCHANGED <<store, hm_request, hm_result, nhm, parser_vars>>

(***************************************************************************)
(* _process_leave_eligibility, up to the restriction check                 *)
(***************************************************************************)
\* mutant: no reason is taken for a closed weekend
is_closed_weekend_never(reason) == FALSE

\* "closed weekend" in date_validity['reason'].lower()
is_closed_weekend(reason) == reason = ClosedWeekendReason

\* mutant: the weekday of an Overnight leave is not looked at
non_saturday_overnight_never(lr) == FALSE

\* an Overnight leave that does not start on a Saturday
non_saturday_overnight(lr) ==
  lr.leave_type = OVERNIGHT /\ weekday(lr.start_date) # 5

\* mutant: Day Leave goes through the restriction and balance checks
day_leave_exempt_never(leave_type) == FALSE

\* Day Leave is approved without the restriction and balance checks
day_leave_exempt(leave_type) == leave_type = DAY_LEAVE

eligibility_dates(p) ==
  /\ pc[p] = "eligibility"
  /\ LET lr == leave_request[p]
         date_validity == tool_date_validity_check(lr.student.block, lr.start_date, lr.end_date)
     IN  IF lr.start_date = NoDate \/ lr.end_date = NoDate
           THEN Finish(p, Result("error", "missing_dates", "none", NoRequest, NoBalance))
         ELSE IF ~ date_validity.isValid
           THEN IF is_closed_weekend(date_validity.reason)
                  THEN Finish(p, _route_to_special_leave(lr, date_validity.reason))
                  ELSE Finish(p, _reject_leave(lr, date_validity.reason))
         ELSE IF non_saturday_overnight(lr)
           THEN Finish(p, _route_to_special_leave(lr, NonSaturdayReason))
         ELSE IF day_leave_exempt(lr.leave_type)
           THEN Continue(p, "approve", FALSE)
         ELSE Continue(p, "restriction", FALSE)
  /\ UNCHANGED <<store, request, hm_request, hm_result, nreq, nhm, parser_vars>>

(***************************************************************************)
(* _process_leave_eligibility: the restriction check                       *)
(***************************************************************************)
\* mutant: the restriction check is made for every category
restriction_applies_always(leave_type) == TRUE

\* the categories for which the restriction check is made
restriction_applies(leave_type) ==
  leave_type \in {OVERNIGHT, FRIDAY_SUPPER, DAY_LEAVE}

eligibility_restriction(p) ==
  /\ pc[p] = "restriction"
  /\ LET lr == leave_request[p]
         is_restricted ==
           /\ restriction_applies(lr.leave_type)
           /\ tool_restriction_check(leave_restrictions, lr.student.admin_number,
                                     lr.start_date, lr.end_date)
     IN  IF is_restricted
           THEN Finish(p, _reject_leave(lr, RestrictedReason))
           ELSE Continue(p, "balance", FALSE)
  /\ UNCHANGED <<store, request, hm_request, hm_result, nreq, nhm, parser_vars>>

(***************************************************************************)
(* _process_leave_eligibility: the balance check and what follows it       *)
(***************************************************************************)
\* mutant: only a negative balance is insufficient
insufficient_balance_negative(balance) == balance < 0

\* balance < 1
insufficient_balance(balance) == balance < 1

eligibility_balance(p) ==
  /\ pc[p] = "balance"
  /\ LET lr == leave_request[p]
         balance == IF lr.leave_type = OVERNIGHT
                      THEN tool_leave_balance_check(term_info[p], leave_balances,
                                                     lr.student.admin_number, "Overnight")
                      ELSE tool_leave_balance_check(term_info[p], leave_balances,
                                                     lr.student.admin_number, "Supper")
     IN  IF lr.leave_type = OVERNIGHT /\ insufficient_balance(balance)
           THEN Finish(p, _reject_leave(lr, InsufficientOvernightReason))
         ELSE IF lr.leave_type = FRIDAY_SUPPER /\ insufficient_balance(balance)
           THEN Finish(p, _reject_leave(lr, InsufficientSupperReason))
         ELSE IF lr.leave_type = SPECIAL
           THEN Finish(p, _route_to_special_leave(lr, ExplicitSpecialReason))
         ELSE Continue(p, "approve", TRUE)
  /\ UNCHANGED <<store, request, hm_request, hm_result, nreq, nhm, parser_vars>>

(***************************************************************************)
(* DatabaseTools.tool_leave_update: new leave approval                     *)
(***************************************************************************)
balance_column(leave_type) ==
  IF leave_type = "Overnight" THEN "overnight_remaining"
  ELSE IF leave_type = "Friday Supper" THEN "friday_supper_remaining"
  ELSE "none"

\* UPDATE leave_balances SET column = column + delta for the student's row
UpdateBalance(bal, student_admin_number, column, delta) ==
  IF student_admin_number \notin DOMAIN bal THEN bal
  ELSE IF column = "overnight_remaining"
    THEN [bal EXCEPT ![student_admin_number].overnight = @ + delta]
  ELSE IF column = "friday_supper_remaining"
    THEN [bal EXCEPT ![student_admin_number].fridaySupper = @ + delta]
  ELSE bal

\* mutant: the row is not inserted
InsertLeave_none(reg, student_admin_number, leave_type, start_date, end_date, requesting_parent) ==
  reg

\* INSERT INTO leave_register ... SELECT ... FROM students WHERE admin_number = ..
InsertLeave(reg, student_admin_number, leave_type, start_date, end_date, requesting_parent) ==
  IF student_admin_number \in AdminNumbers
    THEN Append(reg, [leave_id |-> Len(reg) + 1,
                      student_admin_number |-> student_admin_number,
                      leave_type |-> leave_type,
                      start_date |-> start_date,
                      end_date |-> end_date,
                      requesting_parent_id |-> requesting_parent,
                      status |-> APPROVED,
                      departure_timestamp |-> NoDate])
    ELSE reg

\* mutant: the approval takes two leaves off the balance
ApprovalDeduction_two(term, bal, student_admin_number, leave_type) ==
  UpdateBalance(bal, student_admin_number, balance_column(leave_type), 0 - 2)

\* the balance is updated under "if term_info": when the query for the
\* current term finds no row the row is inserted and nothing is deducted
ApprovalDeduction(term, bal, student_admin_number, leave_type) ==
  IF term
    THEN UpdateBalance(bal, student_admin_number, balance_column(leave_type), 0 - 1)
    ELSE bal

(***************************************************************************)
(* _approve_leave: the commit and the result                               *)
(***************************************************************************)
NewBalance(lr, deduct) ==
  IF deduct /\ lr.leave_type = OVERNIGHT THEN lr.student.overnight_balance - 1
  ELSE IF deduct /\ lr.leave_type = FRIDAY_SUPPER THEN lr.student.friday_supper_balance - 1
  ELSE NoBalance

\* success = FALSE: a statement of the transaction raised, the transaction
\* was rolled back and tool_leave_update returned False
_approve_leave(p) ==
  /\ pc[p] = "approve"
  /\ LET lr == leave_request[p]
     IN  \E success \in BOOLEAN :
           IF success
             THEN /\ leave_register' = InsertLeave(leave_register, lr.student.admin_number,
                                                   lr.leave_type, lr.start_date, lr.end_date,
                                                   lr.parent.auth_id)
                  /\ leave_balances' = ApprovalDeduction(term_info[p], leave_balances,
                                                         lr.student.admin_number, lr.leave_type)
                  /\ Finish(p, Result("approved", "none", "none", lr,
                                      NewBalance(lr, deduct_balance[p])))
             ELSE /\ UNCHANGED <<leave_register, leave_balances>>
                  /\ Finish(p, Result("error", "none", "none", NoRequest, NoBalance))
  /\ UNCHANGED <<leave_restrictions, request, hm_request, hm_result, nreq, nhm, parser_vars>>

(***************************************************************************)
(* A store call that raises.  _execute_query runs the reads without a try, *)
(* tool_leave_update opens its connection before its try, and neither      *)
(* process_parent_request nor _process_leave_eligibility has a try: the    *)
(* exception leaves process_parent_request ("raised") and no result is     *)
(* returned.                                                               *)
(***************************************************************************)
Raise(p) ==
  /\ pc' = [pc EXCEPT ![p] = "raised"]
  /\ result' = [result EXCEPT ![p] = NoResult]
  /\ leave_request' = [leave_request EXCEPT ![p] = NoRequest]
  /\ deduct_balance' = [deduct_balance EXCEPT ![p] = FALSE]
  /\ term_info' = [term_info EXCEPT ![p] = TRUE]
  /\ email' = [email EXCEPT ![p] = NoEmail]

\* the store call that the worker is about to make raises
store_call_raises(p) ==
  /\ \/ /\ pc[p] = "eligibility"
        /\ leave_request[p].start_date # NoDate
        /\ leave_request[p].end_date # NoDate
     \/ /\ pc[p] = "restriction"
        /\ restriction_applies(leave_request[p].leave_type)
     \/ /\ pc[p] = "balance"
        /\ leave_request[p].leave_type \in {OVERNIGHT, FRIDAY_SUPPER}
     \/ pc[p] = "approve"
  /\ Raise(p)
  /\ UNCHANGED <<store, request, hm_request, hm_result, nreq, nhm, parser_vars>>

\* the authentication lookup of a new request raises
parent_check_raises(p, message_text, sender_identifier, channel) ==
  /\ pc[p] \in {"idle", "done", "raised"}
  /\ nreq < MaxRequests
  /\ channel \in {"whatsapp", "email"}
  /\ nreq' = nreq + 1
  /\ request' = [request EXCEPT ![p] =
                   [message_text |-> message_text, sender_identifier |-> sender_identifier,
                    channel |-> channel, n |-> nreq + 1]]
  /\ Raise(p)
  /\ UNCHANGED <<store, hm_request, hm_result, nhm, parser_vars>>

(***************************************************************************)
(* DatabaseTools.tool_leave_update: cancellation                           *)
(***************************************************************************)
\* the rows the cancelling UPDATE changes
Cancellable(reg, student_admin_number) ==
  { i \in 1..Len(reg) : /\ reg[i].student_admin_number = student_admin_number
                        /\ reg[i].status = APPROVED
                        /\ reg[i].departure_timestamp = NoDate }

CancelLeaves(reg, student_admin_number) ==
  [i \in 1..Len(reg) |->
     IF i \in Cancellable(reg, student_admin_number)
       THEN [reg[i] EXCEPT !.status = CANCELLED]
       ELSE reg[i]]

\* the refund for the row that fetchone() returned
CancellationRefund(bal, student_admin_number, cancelled_type) ==
  UpdateBalance(bal, student_admin_number, balance_column(cancelled_type), 1)

(***************************************************************************)
(* DatabaseTools.tool_leave_update: departure logging (the call of the     *)
(* Guard app, with departure_timestamp and without cancellation_details)   *)
(***************************************************************************)
\* mutant: the UPDATE does not look at the status of the row
Departing_any_status(reg, student_admin_number, departure_timestamp) ==
  { i \in 1..Len(reg) : /\ reg[i].student_admin_number = student_admin_number
                        /\ reg[i].start_date <= departure_timestamp
                        /\ reg[i].end_date >= departure_timestamp
                        /\ reg[i].departure_timestamp = NoDate }

\* the rows the departure UPDATE changes
Departing(reg, student_admin_number, departure_timestamp) ==
  { i \in 1..Len(reg) : /\ reg[i].student_admin_number = student_admin_number
                        /\ reg[i].status = APPROVED
                        /\ reg[i].start_date <= departure_timestamp
                        /\ reg[i].end_date >= departure_timestamp
                        /\ reg[i].departure_timestamp = NoDate }

LogDeparture(reg, student_admin_number, departure_timestamp) ==
  [i \in 1..Len(reg) |->
     IF i \in Departing(reg, student_admin_number, departure_timestamp)
       THEN [reg[i] EXCEPT !.departure_timestamp = departure_timestamp]
       ELSE reg[i]]

\* the moments at which the guard logs a departure: the start of a window
\* of the register, one minute after its end
DepartureTimes ==
  UNION { {leave_register[i].start_date, leave_register[i].end_date + 1} :
            i \in 1..Len(leave_register) }

\* success = FALSE: the UPDATE raised and the transaction was rolled back
tool_leave_update_departure(student_admin_number, departure_timestamp) ==
  /\ \E success \in BOOLEAN :
       IF success
         THEN leave_register' = LogDeparture(leave_register, student_admin_number,
                                             departure_timestamp)
         ELSE UNCHANGED leave_register
  /\ UNCHANGED <<leave_balances, leave_restrictions, pc, request, leave_request,
                  deduct_balance, result, hm_request, hm_result, nreq, nhm,
                  term_info, email, parser_vars>>

(***************************************************************************)
(* DatabaseTools.tool_restriction_update                                   *)
(***************************************************************************)
InsertRestriction(restr, hm_id, student_admin_number, start_date, end_date, reason) ==
  IF /\ student_admin_number \in AdminNumbers
     /\ \E h \in housemasters : h.hm_id = hm_id
    THEN restr \cup { [student_admin_number |-> student_admin_number, hm_id |-> hm_id,
                       start_date |-> start_date, end_date |-> end_date,
                       reason |-> reason, active |-> TRUE] }
    ELSE restr

(***************************************************************************)
(* process_housemaster_request                                             *)
(* A command: the keywords its text contains, the 5-digit number in it     *)
(* ("none" when it has none) and the rest of the text.  now is the clock   *)
(* read by the handler.                                                    *)
(***************************************************************************)
HmSenders == {"hm.shepstone@michaelhouse.org", "unknown@example.com"}

HmKeywordSets == { {}, {"cancel"}, {"restrict"}, {"balance"}, {"leave"},
                   {"cancel", "leave"}, {"restrict", "balance"},
                   {"revoke", "exeat"}, {"block", "how many"}, {"how many", "leave"},
                   {"exeat"} }

HmAdminTokens == {"67890", "99999", "none"}

HmMessages == [keywords : HmKeywordSets, admin_number : HmAdminTokens, rest : {"none"}]

\* the clock values at which restrictions are placed: the restriction ends
\* at, or one minute before, the start of the window of day 9; it starts at,
\* or one minute after, the end of that window
RestrictNows == { dt(9 - RestrictionDays, 14, 0), dt(9 - RestrictionDays, 13, 59),
                  dt(10, 18, 50), dt(10, 18, 51) }

NoHmRequest == [message_text |-> [keywords |-> {}, admin_number |-> "none", rest |-> "none"],
                sender_identifier |-> "none", now |-> 0]

HmResult(status, message) == [status |-> status, message |-> message]

\* mutant: the leave query is looked for before the cancellation
Intent_query_first(message_text) ==
  IF message_text.keywords \cap {"leave", "exeat"} # {} THEN "leave"
  ELSE IF message_text.keywords \cap {"cancel", "revoke"} # {} THEN "cancel"
  ELSE IF message_text.keywords \cap {"restrict", "restriction", "block"} # {} THEN "restrict"
  ELSE IF message_text.keywords \cap {"balance", "how many"} # {} THEN "balance"
  ELSE "unrecognized"

\* the if/elif chain over the keywords that text_lower contains
Intent(message_text) ==
  IF message_text.keywords \cap {"cancel", "revoke"} # {} THEN "cancel"
  ELSE IF message_text.keywords \cap {"restrict", "restriction", "block"} # {} THEN "restrict"
  ELSE IF message_text.keywords \cap {"balance", "how many"} # {} THEN "balance"
  ELSE IF message_text.keywords \cap {"leave", "exeat"} # {} THEN "leave"
  ELSE "unrecognized"

_process_hm_cancellation(message_text, hm_id) ==
  IF message_text.admin_number = "none"
    THEN /\ hm_result' = HmResult("error", "Please include the student's admin number to cancel their leave.")
         /\ UNCHANGED store
  ELSE LET rows == Cancellable(leave_register, message_text.admin_number)
       IN  \E success \in BOOLEAN :
             IF success
               THEN /\ leave_register' = CancelLeaves(leave_register, message_text.admin_number)
                    /\ IF rows = {}
                         THEN UNCHANGED leave_balances
                         ELSE \E i \in rows :
                                leave_balances' =
                                  CancellationRefund(leave_balances, message_text.admin_number,
                                                     leave_register[i].leave_type)
                    /\ UNCHANGED leave_restrictions
                    /\ hm_result' = HmResult("success", "Leave cancelled")
               ELSE /\ UNCHANGED store
                    /\ hm_result' = HmResult("error", "Failed to cancel leave")

\* mutant: a text that says more than the command gets a restriction of
\* one week
_process_hm_restriction_from_text(message_text, hm_id, now) ==
  IF message_text.admin_number = "none"
    THEN /\ hm_result' = HmResult("error", "Please include the student's admin number to set a restriction.")
         /\ UNCHANGED store
  ELSE LET start_date == now
           end_date == IF message_text.rest = "none"
                         THEN now + RestrictionDays * 24 * 60
                         ELSE now + 7 * 24 * 60
           inserted == InsertRestriction(leave_restrictions, hm_id,
                                         message_text.admin_number, start_date, end_date,
                                         "Housemaster restriction")
       IN  /\ leave_restrictions' = inserted
           /\ UNCHANGED <<leave_balances, leave_register>>
           /\ IF message_text.admin_number \in AdminNumbers
                THEN hm_result' = HmResult("success", "Restriction placed")
                ELSE hm_result' = HmResult("error", "Failed to set restriction")

_process_hm_restriction(message_text, hm_id, now) ==
  IF message_text.admin_number = "none"
    THEN /\ hm_result' = HmResult("error", "Please include the student's admin number to set a restriction.")
         /\ UNCHANGED store
  ELSE LET start_date == now
           end_date == now + RestrictionDays * 24 * 60
           inserted == InsertRestriction(leave_restrictions, hm_id,
                                         message_text.admin_number, start_date, end_date,
                                         "Housemaster restriction")
       IN  /\ leave_restrictions' = inserted
           /\ UNCHANGED <<leave_balances, leave_register>>
           /\ IF message_text.admin_number \in AdminNumbers
                THEN hm_result' = HmResult("success", "Restriction placed")
                ELSE hm_result' = HmResult("error", "Failed to set restriction")

_process_hm_query(message_text, what) ==
  /\ UNCHANGED store
  /\ IF message_text.admin_number = "none"
       THEN hm_result' = HmResult("error",
              IF what = "Leave Balance"
                THEN "Please include the student's admin number to check their balance."
                ELSE "Please include the student's admin number to view their leave history.")
       ELSE hm_result' = HmResult("success", what)

process_housemaster_request(message_text, sender_identifier, now) ==
  /\ nhm < MaxHmCommands
  /\ nhm' = nhm + 1
  /\ hm_request' = [message_text |-> message_text, sender_identifier |-> sender_identifier,
                     now |-> now]
  /\ LET hm_info == tool_hm_auth_house_check(sender_identifier)
         intent == Intent(message_text)
     IN  IF hm_info.hmID = "none"
           THEN /\ hm_result' = HmResult("error", "I couldn't verify your Housemaster credentials")
                /\ UNCHANGED store
         ELSE IF intent = "cancel" THEN _process_hm_cancellation(message_text, hm_info.hmID)
         ELSE IF intent = "restrict" THEN _process_hm_restriction(message_text, hm_info.hmID, now)
         ELSE IF intent = "balance" THEN _process_hm_query(message_text, "Leave Balance")
         ELSE IF intent = "leave" THEN _process_hm_query(message_text, "Leave History")
         ELSE /\ hm_result' = HmResult("error", "I didn't understand your request")
              /\ UNCHANGED store
  /\ UNCHANGED <<pc, request, leave_request, deduct_balance, result, nreq,
                  term_info, email, parser_vars>>

(***************************************************************************)
(* Initial state: an empty register, no restriction, one leave of each     *)
(* category left for every student                                        *)
(***************************************************************************)
Init ==
  /\ leave_balances = [a \in AdminNumbers |-> [overnight |-> 1, fridaySupper |-> 1]]
  /\ leave_register = <<>>
  /\ leave_restrictions = {}
  /\ pc = [p \in Procs |-> "idle"]
  /\ request = [p \in Procs |-> NoArguments]
  /\ leave_request = [p \in Procs |-> NoRequest]
  /\ deduct_balance = [p \in Procs |-> FALSE]
  /\ result = [p \in Procs |-> NoResult]
  /\ hm_request = NoHmRequest
  /\ hm_result = HmResult("none", "none")
  /\ nreq = 0
  /\ nhm = 0
  /\ term_info = [p \in Procs |-> TRUE]
  /\ email = [p \in Procs |-> NoEmail]
  /\ parser_call = NoCall
  /\ parser_return = NoReturn

(***************************************************************************)
(* Specification                                                           *)
(***************************************************************************)
\* one worker handles the parents' requests one after the other; the
\* housemaster's commands come in between its store calls
ParentRequest ==
  \E r \in Requests :
     process_parent_request(1, r.message_text, r.sender_identifier, r.channel)

EligibilityDates == eligibility_dates(1)

EligibilityRestriction == eligibility_restriction(1)

EligibilityBalance == eligibility_balance(1)

ApproveLeave == _approve_leave(1)

\* datetime.now() is read by the restriction handler only, once it has
\* found the admin number
ReadsClock(message_text, sender_identifier) ==
  /\ tool_hm_auth_house_check(sender_identifier).hmID # "none"
  /\ Intent(message_text) = "restrict"
  /\ message_text.admin_number # "none"

HousemasterRequest ==
  \E m \in HmMessages, s \in HmSenders :
     \E now \in IF ReadsClock(m, s) THEN RestrictNows ELSE {0} :
        process_housemaster_request(m, s, now)

Next ==
  \/ ParentRequest
  \/ EligibilityDates
  \/ EligibilityRestriction
  \/ EligibilityBalance
  \/ ApproveLeave
  \/ HousemasterRequest

Spec == Init /\ [][Next]_vars

(***************************************************************************)
(* Specification with the guard: requests, the housemaster's commands and  *)
(* the departures that the Guard app logs in the register                  *)
(***************************************************************************)
\* the requests for the weekend of days 8 and 9, one worker
GuardParentRequest ==
  \E r \in ConcurrentRequests :
     process_parent_request(1, r.message_text, r.sender_identifier, r.channel)

GuardLogsDeparture ==
  \E a \in AdminNumbers, t \in DepartureTimes :
     tool_leave_update_departure(a, t)

NextGuard ==
  \/ GuardParentRequest
  \/ EligibilityDates
  \/ EligibilityRestriction
  \/ EligibilityBalance
  \/ ApproveLeave
  \/ HousemasterRequest
  \/ GuardLogsDeparture

SpecGuard == Init /\ [][NextGuard]_vars

(***************************************************************************)
(* Concurrent specification: the workers of Procs handle requests for the  *)
(* same student at the same time                                           *)
(***************************************************************************)
ConcurrentParentRequest ==
  \E p \in Procs, r \in ConcurrentRequests :
     process_parent_request(p, r.message_text, r.sender_identifier, r.channel)

ConcurrentEligibilityDates == \E p \in Procs : eligibility_dates(p)

ConcurrentEligibilityRestriction == \E p \in Procs : eligibility_restriction(p)

ConcurrentEligibilityBalance == \E p \in Procs : eligibility_balance(p)

ConcurrentApproveLeave == \E p \in Procs : _approve_leave(p)

NextConcurrent ==
  \/ ConcurrentParentRequest
  \/ ConcurrentEligibilityDates
  \/ ConcurrentEligibilityRestriction
  \/ ConcurrentEligibilityBalance
  \/ ConcurrentApproveLeave

SpecConcurrent == Init /\ [][NextConcurrent]_vars

(***************************************************************************)
(* The same worker and housemaster with a store whose calls may raise      *)
(***************************************************************************)
StoreCallRaises == store_call_raises(1)

ParentCheckRaises ==
  \E r \in Requests :
     parent_check_raises(1, r.message_text, r.sender_identifier, r.channel)

NextFaults ==
  \/ ParentRequest
  \/ EligibilityDates
  \/ EligibilityRestriction
  \/ EligibilityBalance
  \/ ApproveLeave
  \/ HousemasterRequest
  \/ StoreCallRaises
  \/ ParentCheckRaises

SpecFaults == Init /\ [][NextFaults]_vars

(***************************************************************************)
(* The housemaster's commands with texts that say more than the command:   *)
(* dates and a reason                                                      *)
(***************************************************************************)
HmRests == {"none", "from 1 March to 3 March because of misconduct",
            "until 20 March reason: illness"}

DetailedHmMessages ==
  [keywords : HmKeywordSets, admin_number : HmAdminTokens, rest : HmRests]

DetailedHousemasterRequest ==
  \E m \in DetailedHmMessages, s \in HmSenders :
     \E now \in IF ReadsClock(m, s) THEN RestrictNows ELSE {0} :
        process_housemaster_request(m, s, now)

NextHousemaster == DetailedHousemasterRequest

SpecHousemaster == Init /\ [][NextHousemaster]_vars

(***************************************************************************)
(* The parser called on its own, as its unit tests call it: each call is   *)
(* made on a parser that has not been called                               *)
(***************************************************************************)
processor_vars == <<store, pc, request, leave_request, deduct_balance, result,
                    hm_request, hm_result, nreq, nhm, term_info, email>>

RECURSIVE TextsUpTo(_)
\* the texts with at most n phrases
TextsUpTo(n) ==
  IF n = 0 THEN {{}}
  ELSE LET shorter == TextsUpTo(n - 1)
       IN  shorter \cup { text \cup {phrase} : text \in shorter, phrase \in Phrases }

Texts == TextsUpTo(MaxPhrases)

DateStrs ==
  [qualifier : {"this", "next", "none"},
   name : (DOMAIN weekdays) \cup {"today", "tomorrow", "weekend"}]

\* datetime.now() at 00:00, and the base dates
Todays == { dt(day, 0, 0) : day \in 0..MaxDay }

DetermineLeaveType ==
  \E text \in Texts :
     /\ parser_call = NoCall
     /\ parser_call' = [method |-> "_determine_leave_type", text |-> text]
     /\ parser_return' = [leave_type |-> _determine_leave_type(text)]
     /\ UNCHANGED processor_vars

ParseRelativeDate ==
  \E date_str \in DateStrs, today \in Todays :
     /\ parser_call = NoCall
     /\ parser_call' = [method |-> "_parse_relative_date", date_str |-> date_str,
                        today |-> today]
     /\ parser_return' = [date |-> _parse_relative_date(date_str, today)]
     /\ UNCHANGED processor_vars

InferDateRange ==
  \E base_date \in Todays, leave_type \in LeaveType :
     /\ parser_call = NoCall
     /\ parser_call' = [method |-> "_infer_date_range", base_date |-> base_date,
                        leave_type |-> leave_type]
     /\ LET window == _infer_date_range(base_date, leave_type)
        IN  parser_return' = [start_date |-> window[1], end_date |-> window[2]]
     /\ UNCHANGED processor_vars

\* the date expressions of a text: none, one date, two dates with "to"
\* between them, in either order
ParserDateExprs ==
  {NoDateExpr}
    \cup { [kind |-> "single", d1 |-> d, d2 |-> d] : d \in 0..MaxDay }
    \cup { [kind |-> "range", d1 |-> d1, d2 |-> d2] : d1, d2 \in 0..MaxDay }

ExtractDates ==
  \E expr \in ParserDateExprs, leave_type \in LeaveType :
     /\ parser_call = NoCall
     /\ parser_call' = [method |-> "_extract_dates", expr |-> expr,
                        leave_type |-> leave_type]
     /\ LET window == _extract_dates(expr, leave_type)
        IN  parser_return' = [start_date |-> window[1], end_date |-> window[2]]
     /\ UNCHANGED processor_vars

RECURSIVE WordTextsUpTo(_)
\* the texts of at most n words
WordTextsUpTo(n) ==
  IF n = 0 THEN {<<>>}
  ELSE LET shorter == WordTextsUpTo(n - 1)
       IN  shorter \cup { Append(text, word) : text \in shorter, word \in Words }

ExtractStudentIdentifier ==
  \E text \in WordTextsUpTo(MaxWords) :
     /\ parser_call = NoCall
     /\ parser_call' = [method |-> "_extract_student_identifier", words |-> text]
     /\ parser_return' = [student_identifier |-> _extract_student_identifier(text)]
     /\ UNCHANGED processor_vars

NextParser ==
  \/ DetermineLeaveType
  \/ ParseRelativeDate
  \/ InferDateRange
  \/ ExtractDates
  \/ ExtractStudentIdentifier

SpecParser == Init /\ [][NextParser]_vars

(***************************************************************************)
(* Properties                                                              *)
(***************************************************************************)
\* the results that carry the LeaveRequest they decide
Decided(r) ==
  /\ r.status \in {"approved", "rejected", "special_pending"}
  /\ r.leave_request # NoRequest

DatesPresent(lr) == lr.start_date # NoDate /\ lr.end_date # NoDate

DateValid(lr) ==
  tool_date_validity_check(lr.student.block, lr.start_date, lr.end_date).isValid

StoredBalance(a, leave_type) ==
  IF leave_type = OVERNIGHT THEN leave_balances[a].overnight
  ELSE leave_balances[a].fridaySupper

\* C1: under any interleaving of concurrent Overnight or Friday Supper
\* approvals for the same student, no stored balance goes below 0, and a
\* student who started the term with one leave of a category never holds two
\* Approved register rows of that category
C1_BalanceNeverNegative ==
  \A a \in AdminNumbers :
     /\ leave_balances[a].overnight >= 0
     /\ leave_balances[a].fridaySupper >= 0
     /\ \A t \in {OVERNIGHT, FRIDAY_SUPPER} :
          Cardinality({ i \in 1..Len(leave_register) :
                          /\ leave_register[i].student_admin_number = a
                          /\ leave_register[i].leave_type = t
                          /\ leave_register[i].status = APPROVED }) <= 1

\* C2: the commit of an approved Overnight (Friday Supper) request takes
\* exactly 1 off the student's Overnight (Friday Supper) balance and leaves
\* the other balance and the other students' balances alone; the commit of
\* an approval of another category changes no balance
C2_ApprovalDeductsOne ==
  [][\A p \in Procs :
       (pc[p] = "approve" /\ pc'[p] = "done" /\ result'[p].status = "approved") =>
         LET lr == leave_request[p]
             a == lr.student.admin_number
         IN  /\ \A b \in AdminNumbers \ {a} : leave_balances'[b] = leave_balances[b]
             /\ lr.leave_type = OVERNIGHT =>
                  /\ leave_balances'[a].overnight = leave_balances[a].overnight - 1
                  /\ leave_balances'[a].fridaySupper = leave_balances[a].fridaySupper
             /\ lr.leave_type = FRIDAY_SUPPER =>
                  /\ leave_balances'[a].fridaySupper = leave_balances[a].fridaySupper - 1
                  /\ leave_balances'[a].overnight = leave_balances[a].overnight
             /\ lr.leave_type \notin {OVERNIGHT, FRIDAY_SUPPER} =>
                  leave_balances' = leave_balances]_vars

\* a Friday Supper request was approved and took the only Friday Supper
\* leave, the Overnight balance is as it was
C2_Witness ==
  \E p \in Procs :
     /\ result[p].status = "approved"
     /\ result[p].leave_request.leave_type = FRIDAY_SUPPER
     /\ leave_balances[result[p].leave_request.student.admin_number]
          = [overnight |-> 1, fridaySupper |-> 0]

\* C3: an Overnight or Friday Supper request that reaches the balance check
\* while the stored balance of its category is below 1 is rejected for
\* insufficient balance of that category, and neither the register nor a
\* balance changes
C3_InsufficientBalanceRejected ==
  [][\A p \in Procs :
       LET lr == leave_request[p]
       IN  ( /\ pc[p] = "balance"
             /\ pc'[p] # "balance"
             /\ lr.leave_type \in {OVERNIGHT, FRIDAY_SUPPER}
             /\ StoredBalance(lr.student.admin_number, lr.leave_type) < 1 ) =>
             /\ pc'[p] = "done"
             /\ result'[p].status = "rejected"
             /\ result'[p].reason = IF lr.leave_type = OVERNIGHT
                                      THEN InsufficientOvernightReason
                                      ELSE InsufficientSupperReason
             /\ result'[p].leave_request = lr
             /\ leave_register' = leave_register
             /\ leave_balances' = leave_balances]_vars

\* an Overnight request was rejected for insufficient balance while the
\* stored Overnight balance is 0
C3_Witness ==
  \E p \in Procs :
     /\ result[p].status = "rejected"
     /\ result[p].reason = InsufficientOvernightReason
     /\ leave_balances[result[p].leave_request.student.admin_number].overnight = 0

\* C4 as stated: a Day Leave request with a window that passes the
\* date-validity check goes straight to the commit and is decided approved,
\* and no balance changes on the way
C4_DayLeaveAlwaysApproved ==
  [][\A p \in Procs :
       LET lr == leave_request[p]
       IN  ( /\ pc[p] \in {"eligibility", "approve"}
             /\ pc'[p] # pc[p]
             /\ lr.leave_type = DAY_LEAVE
             /\ DatesPresent(lr)
             /\ DateValid(lr) ) =>
             /\ leave_balances' = leave_balances
             /\ \/ pc[p] = "eligibility" /\ pc'[p] = "approve"
                \/ /\ pc[p] = "approve"
                   /\ pc'[p] = "done"
                   /\ result'[p].status = "approved"]_vars

\* C4 as amended: a Day Leave request with a window that passes the
\* date-validity check goes straight to the commit, whatever the balances and
\* the restrictions are; it is decided approved, with its row added to the
\* register, when the commit succeeds and error, with the register as it
\* was, when the commit fails; no balance changes in either case
C4_DayLeaveApprovedUnlessCommitFails ==
  [][\A p \in Procs :
       LET lr == leave_request[p]
       IN  ( /\ pc[p] \in {"eligibility", "approve"}
             /\ pc'[p] # pc[p]
             /\ lr.leave_type = DAY_LEAVE
             /\ DatesPresent(lr)
             /\ DateValid(lr) ) =>
             /\ leave_balances' = leave_balances
             /\ \/ pc[p] = "eligibility" /\ pc'[p] = "approve"
                \/ /\ pc[p] = "approve"
                   /\ pc'[p] = "done"
                   /\ \/ /\ result'[p].status = "approved"
                         /\ result'[p].leave_request = lr
                         /\ Len(leave_register') = Len(leave_register) + 1
                         /\ leave_register'[Len(leave_register')].leave_type = DAY_LEAVE
                         /\ leave_register'[Len(leave_register')].status = APPROVED
                      \/ /\ result'[p].status = "error"
                         /\ leave_register' = leave_register]_vars

\* a Day Leave request was approved while both balances of the student are 0
\* and an active restriction overlaps its window
C4_Witness ==
  \E p \in Procs :
     /\ result[p].status = "approved"
     /\ result[p].leave_request.leave_type = DAY_LEAVE
     /\ leave_balances[result[p].leave_request.student.admin_number]
          = [overnight |-> 0, fridaySupper |-> 0]
     /\ \E r \in leave_restrictions :
          /\ r.student_admin_number = result[p].leave_request.student.admin_number
          /\ r.active
          /\ r.start_date <= result[p].leave_request.start_date
          /\ r.end_date >= result[p].leave_request.end_date

\* the Overnight requests that went past the weekday rule start on a Saturday
OvernightInFlightOnSaturday ==
  \A p \in Procs :
     (pc[p] \in {"restriction", "balance", "approve"}
        /\ leave_request[p].leave_type = OVERNIGHT) =>
       weekday(leave_request[p].start_date) = 5

\* C5 as stated: an Overnight request that is approved or rejected for
\* insufficient balance starts on a Saturday, and every Overnight request
\* whose window starts on another day is decided special_pending
C5_NonSaturdayOvernightSpecial ==
  /\ OvernightInFlightOnSaturday
  /\ \A p \in Procs :
       LET r == result[p]
       IN  ( /\ Decided(r)
             /\ r.leave_request.leave_type = OVERNIGHT
             /\ DatesPresent(r.leave_request) ) =>
             /\ ( \/ r.status = "approved"
                  \/ r.status = "rejected" /\ r.reason = InsufficientOvernightReason ) =>
                  weekday(r.leave_request.start_date) = 5
             /\ weekday(r.leave_request.start_date) # 5 => r.status = "special_pending"

\* C5 as amended: an Overnight request that is approved or rejected for
\* insufficient balance starts on a Saturday, and every Overnight request
\* whose window passes the date-validity check and starts on another day is
\* decided special_pending for the night it asks for; one whose window fails
\* the date-validity check is decided by that check (C6)
C5_ValidNonSaturdayOvernightSpecial ==
  /\ OvernightInFlightOnSaturday
  /\ \A p \in Procs :
       LET r == result[p]
       IN  ( /\ Decided(r)
             /\ r.leave_request.leave_type = OVERNIGHT
             /\ DatesPresent(r.leave_request) ) =>
             /\ ( \/ r.status = "approved"
                  \/ r.status = "rejected" /\ r.reason = InsufficientOvernightReason ) =>
                  weekday(r.leave_request.start_date) = 5
             /\ (weekday(r.leave_request.start_date) # 5 /\ DateValid(r.leave_request)) =>
                  /\ r.status = "special_pending"
                  /\ r.trigger_reason = NonSaturdayReason
             /\ (weekday(r.leave_request.start_date) # 5 /\ ~ DateValid(r.leave_request)) =>
                  \/ r.status = "special_pending" /\ r.trigger_reason = ClosedWeekendReason
                  \/ r.status = "rejected" /\ r.reason = OutsideTermReason

\* an Overnight request for a Friday of the term was routed to special leave
C5_Witness ==
  \E p \in Procs :
     /\ result[p].status = "special_pending"
     /\ result[p].trigger_reason = NonSaturdayReason
     /\ result[p].leave_request.leave_type = OVERNIGHT
     /\ weekday(result[p].leave_request.start_date) = Friday
     /\ DateValid(result[p].leave_request)

\* C6: a request of any category whose window the date-validity check
\* reports as invalid is decided at once, without a change of the store:
\* special_pending with the reason as trigger when the reason is a closed
\* weekend, rejected with the reason otherwise
C6_InvalidWindowDecision ==
  [][\A p \in Procs :
       LET lr == leave_request[p]
           date_validity == tool_date_validity_check(lr.student.block,
                                                      lr.start_date, lr.end_date)
       IN  ( /\ pc[p] = "eligibility"
             /\ pc'[p] # "eligibility"
             /\ DatesPresent(lr)
             /\ ~ date_validity.isValid ) =>
             /\ pc'[p] = "done"
             /\ UNCHANGED store
             /\ result'[p].leave_request = lr
             /\ IF date_validity.reason = ClosedWeekendReason
                  THEN /\ result'[p].status = "special_pending"
                       /\ result'[p].trigger_reason = date_validity.reason
                  ELSE /\ result'[p].status = "rejected"
                       /\ result'[p].reason = date_validity.reason]_vars

\* a Friday Supper request for a closed weekend was routed to special leave
\* although an active restriction overlaps its window
C6_Witness ==
  \E p \in Procs :
     /\ result[p].status = "special_pending"
     /\ result[p].trigger_reason = ClosedWeekendReason
     /\ result[p].leave_request.leave_type = FRIDAY_SUPPER
     /\ tool_restriction_check(leave_restrictions,
                               result[p].leave_request.student.admin_number,
                               result[p].leave_request.start_date,
                               result[p].leave_request.end_date)

\* C7: a Special request never reaches the commit and is never approved;
\* when its window passes the date-validity check it is decided
\* special_pending as an explicit special leave
C7_SpecialAlwaysPending ==
  \A p \in Procs :
     /\ pc[p] = "approve" => leave_request[p].leave_type # SPECIAL
     /\ LET r == result[p]
        IN  (Decided(r) /\ r.leave_request.leave_type = SPECIAL) =>
              /\ r.status # "approved"
              /\ DateValid(r.leave_request) =>
                   /\ r.status = "special_pending"
                   /\ r.trigger_reason = ExplicitSpecialReason

\* a Special request was routed as an explicit special leave while the
\* Overnight balance is 0 and an active restriction overlaps its window
C7_Witness ==
  \E p \in Procs :
     /\ result[p].status = "special_pending"
     /\ result[p].trigger_reason = ExplicitSpecialReason
     /\ result[p].leave_request.leave_type = SPECIAL
     /\ leave_balances[result[p].leave_request.student.admin_number].overnight = 0
     /\ \E r \in leave_restrictions :
          /\ r.student_admin_number = result[p].leave_request.student.admin_number
          /\ r.active
          /\ r.start_date <= result[p].leave_request.end_date
          /\ r.end_date >= result[p].leave_request.start_date

\* the sender is found by the lookup that belongs to the channel
FoundByChannelLookup(sender_identifier, channel) ==
  \/ channel = "whatsapp" /\ \E q \in parents : q.phone = sender_identifier
  \/ channel = "email" /\ \E q \in parents : q.email = sender_identifier

\* C8: a request whose sender the lookup of its channel does not find is
\* rejected with authentication_failed in the same step: no leave request
\* is built, no eligibility step follows, and the store is unchanged
C8_UnknownSenderRejected ==
  [][\A p \in Procs :
       ( /\ request'[p] # request[p]
         /\ ~ FoundByChannelLookup(request'[p].sender_identifier, request'[p].channel) ) =>
         /\ pc'[p] = "done"
         /\ result'[p] = Result("rejected", "authentication_failed", "none",
                                NoRequest, NoBalance)
         /\ leave_request'[p] = NoRequest
         /\ UNCHANGED store]_vars

\* a phone number registered for whatsapp was sent on the email channel (or
\* an email address registered for email on the whatsapp channel) and the
\* request was rejected with authentication_failed
C8_Witness ==
  \E p \in Procs :
     /\ result[p].status = "rejected"
     /\ result[p].reason = "authentication_failed"
     /\ \E q \in parents :
          \/ request[p].sender_identifier = q.phone /\ request[p].channel = "email"
          \/ request[p].sender_identifier = q.email /\ request[p].channel = "whatsapp"

\* the identifier matches no student linked to the parent
NoLinkedMatch(parent_auth_id, identifier) ==
  \A s \in students :
     <<s.admin_number, parent_auth_id>> \in student_parents =>
       ~ ( \/ s.admin_number = identifier
           \/ Like(s.first_name, identifier)
           \/ Like(s.last_name, identifier) )

\* C9: a request of an authenticated sender whose student identifier matches
\* no student linked to the sender is rejected with student_linkage_failed
\* and leaves the store unchanged; a row that a request adds to the register
\* is for a student linked to the authenticated parent of that request; and
\* a step of a parent's request changes neither the rows that exist nor the
\* balances of a student who is not linked to that parent
C9_OnlyLinkedStudents ==
  [][\A p \in Procs :
       LET new == request'[p]
           old_parent == _authenticate_parent(request[p].sender_identifier,
                                              request[p].channel)
       IN  /\ ( /\ new # request[p]
                /\ FoundByChannelLookup(new.sender_identifier, new.channel)
                /\ new.message_text.student_identifier # "none"
                /\ NoLinkedMatch(_authenticate_parent(new.sender_identifier, new.channel),
                                 new.message_text.student_identifier) ) =>
                /\ pc'[p] = "done"
                /\ result'[p] = Result("rejected", "student_linkage_failed", "none",
                                       NoRequest, NoBalance)
                /\ leave_request'[p] = NoRequest
                /\ UNCHANGED store
           /\ ( pc'[p] # pc[p] /\ new = request[p] /\ nhm' = nhm ) =>
                /\ Len(leave_register') >= Len(leave_register)
                /\ SubSeq(leave_register', 1, Len(leave_register)) = leave_register
                /\ \A i \in Len(leave_register) + 1 .. Len(leave_register') :
                     /\ leave_register'[i].requesting_parent_id = old_parent
                     /\ <<leave_register'[i].student_admin_number, old_parent>>
                          \in student_parents
                /\ \A a \in AdminNumbers :
                     leave_balances'[a] # leave_balances[a] =>
                       <<a, old_parent>> \in student_parents]_vars

\* an authenticated parent asked for a student who is linked only to another
\* parent and the request was rejected with student_linkage_failed
C9_Witness ==
  \E p \in Procs :
     /\ result[p].status = "rejected"
     /\ result[p].reason = "student_linkage_failed"
     /\ LET parent == _authenticate_parent(request[p].sender_identifier,
                                           request[p].channel)
            ident == request[p].message_text.student_identifier
        IN  /\ parent # "none"
            /\ \E s \in students :
                 /\ s.admin_number = ident \/ Like(s.first_name, ident)
                 /\ <<s.admin_number, parent>> \notin student_parents

\* the windows that requests resolve to: those of the single dates of the
\* requests and that of the two dates "day 9 to day 10"
Windows ==
  { _extract_dates(d, t) :
      d \in DateExprs \cup { [kind |-> "range", d1 |-> 9, d2 |-> 10] },
      t \in LeaveType }

\* the active restrictions of a student
ActiveRestrictions(student_admin_number) ==
  { r \in leave_restrictions :
      r.student_admin_number = student_admin_number /\ r.active }

\* C10: for every student and every window the restriction check reports a
\* restriction exactly when some active restriction of the student satisfies
\* NOT (window end < restriction start OR window start > restriction end);
\* a restriction that ends exactly at the start of the window is reported
C10_InclusiveOverlap ==
  \A a \in AdminNumbers : \A w \in Windows :
     /\ tool_restriction_check(leave_restrictions, a, w[1], w[2])
          <=> \E r \in ActiveRestrictions(a) :
                 ~ (w[2] < r.start_date \/ w[1] > r.end_date)
     /\ placeholder_restriction_check(ActiveRestrictions(a), w[1], w[2])
          <=> tool_restriction_check(leave_restrictions, a, w[1], w[2])
     /\ (\E r \in ActiveRestrictions(a) : r.end_date = w[1] \/ r.start_date = w[2]) =>
          tool_restriction_check(leave_restrictions, a, w[1], w[2])

\* a request was rejected as restricted by a restriction that ends exactly
\* at the start of its window
C10_Witness ==
  \E p \in Procs :
     /\ result[p].status = "rejected"
     /\ result[p].reason = RestrictedReason
     /\ \E r \in ActiveRestrictions(result[p].leave_request.student.admin_number) :
          r.end_date = result[p].leave_request.start_date

\* the rows of the register that are Approved for student a and category t
ApprovedRows(reg, a, t) ==
  { i \in 1..Len(reg) : /\ reg[i].student_admin_number = a
                        /\ reg[i].leave_type = t
                        /\ reg[i].status = APPROVED }

\* the rows that a step changes from Approved to Cancelled
NewlyCancelled ==
  { i \in 1..Len(leave_register) :
      /\ leave_register[i].status = APPROVED
      /\ leave_register'[i].status = CANCELLED }

\* C11: the approval of an Overnight (Friday Supper) request followed by
\* the cancellation of its entry brings the stored balance of the category
\* back to what it was before the approval, once: for every student and
\* each of the two categories, the stored balance plus the number of
\* Approved entries of the category is the balance the term started with;
\* a cancel command that finds only cancelled or Day Leave entries changes
\* no balance
C11_CancelRestoresBalance ==
  \A a \in AdminNumbers :
     /\ leave_balances[a].overnight
          + Cardinality(ApprovedRows(leave_register, a, OVERNIGHT)) = 1
     /\ leave_balances[a].fridaySupper
          + Cardinality(ApprovedRows(leave_register, a, FRIDAY_SUPPER)) = 1

\* C12: one cancel command changes exactly one Approved, not yet departed
\* entry to Cancelled and adds exactly 1 to the balance of that entry's
\* category (nothing for Day Leave and Special): for each of the two
\* categories the number of entries a command cancels is the number of
\* leaves it refunds
C12_OneEntryOneRefund ==
  [][nhm' # nhm =>
       /\ Len(leave_register') = Len(leave_register)
       /\ Cardinality(NewlyCancelled) <= 1
       /\ \A i \in 1..Len(leave_register) :
            leave_register'[i] # leave_register[i] =>
              /\ i \in NewlyCancelled
              /\ leave_register[i].departure_timestamp = NoDate
       /\ \A a \in AdminNumbers :
            /\ leave_balances'[a].overnight - leave_balances[a].overnight
                 = Cardinality({ i \in NewlyCancelled :
                                   /\ leave_register[i].student_admin_number = a
                                   /\ leave_register[i].leave_type = OVERNIGHT })
            /\ leave_balances'[a].fridaySupper - leave_balances[a].fridaySupper
                 = Cardinality({ i \in NewlyCancelled :
                                   /\ leave_register[i].student_admin_number = a
                                   /\ leave_register[i].leave_type = FRIDAY_SUPPER })]_vars

\* C13: an approval attempt leaves the register entry and the balance
\* effect both present or both absent.  When the commit succeeds the
\* decision is approved, one Approved row for the request is added and, for
\* Overnight and Friday Supper, the balance of that category is 1 lower
\* (no balance changes for the other categories); when the commit fails the
\* decision is error and register and balances are as they were
C13_CommitAllOrNothing ==
  [][\A p \in Procs :
       (pc[p] = "approve" /\ pc'[p] # "approve") =>
         LET lr == leave_request[p]
             a == lr.student.admin_number
             n == Len(leave_register)
         IN  /\ pc'[p] = "done"
             /\ \A b \in AdminNumbers \ {a} : leave_balances'[b] = leave_balances[b]
             /\ \/ /\ result'[p].status = "approved"
                   /\ Len(leave_register') = n + 1
                   /\ SubSeq(leave_register', 1, n) = leave_register
                   /\ leave_register'[n + 1].student_admin_number = a
                   /\ leave_register'[n + 1].leave_type = lr.leave_type
                   /\ leave_register'[n + 1].start_date = lr.start_date
                   /\ leave_register'[n + 1].end_date = lr.end_date
                   /\ leave_register'[n + 1].status = APPROVED
                   /\ leave_balances'[a].overnight =
                        leave_balances[a].overnight
                          - (IF lr.leave_type = OVERNIGHT THEN 1 ELSE 0)
                   /\ leave_balances'[a].fridaySupper =
                        leave_balances[a].fridaySupper
                          - (IF lr.leave_type = FRIDAY_SUPPER THEN 1 ELSE 0)
                \/ /\ result'[p].status = "error"
                   /\ leave_register' = leave_register
                   /\ leave_balances' = leave_balances]_vars

\* the commit of an Overnight request failed: the decision is error, the
\* register is empty and the balances are those of the start of the term
C13_Witness ==
  \E p \in Procs :
     /\ pc[p] = "done"
     /\ result[p].status = "error"
     /\ result[p].reason = "none"
     /\ request[p].message_text.leave_type = OVERNIGHT
     /\ leave_register = <<>>
     /\ \A a \in AdminNumbers : leave_balances[a] = [overnight |-> 1, fridaySupper |-> 1]

\* C14: process_parent_request never ends by an exception, and the result
\* it returns has one of the four statuses and a message that is not empty
C14_AlwaysTerminalDecision ==
  \A p \in Procs :
     /\ pc[p] # "raised"
     /\ pc[p] = "done" =>
          /\ result[p].status \in {"approved", "rejected", "special_pending", "error"}
          /\ result_message(result[p]) # ""

\* the house of the student with admin number a, by the students table
HouseOf(a) == (CHOOSE s \in students : s.admin_number = a).house

\* a step in which worker p returns the decision special_pending
DecidesSpecialPending(p) ==
  /\ pc[p] # "done"
  /\ pc'[p] = "done"
  /\ result'[p].status = "special_pending"

\* C15: a request decided special_pending changes no balance and adds no
\* Approved register entry, the pending request is recorded in the store
\* (the register gains an entry for the subject of the request), and a
\* notification addressed to the housemaster of the subject's house is
\* produced
C15_SpecialPendingRecorded ==
  [][\A p \in Procs :
       DecidesSpecialPending(p) =>
         LET lr == leave_request[p]
         IN  /\ leave_balances' = leave_balances
             /\ \A a \in AdminNumbers, t \in LeaveType :
                  ApprovedRows(leave_register', a, t) = ApprovedRows(leave_register, a, t)
             /\ email'[p].to = housemaster_email(HouseOf(lr.student.admin_number))
             /\ email'[p].student = lr.student.admin_number
             /\ \E i \in (DOMAIN leave_register') \ (DOMAIN leave_register) :
                  /\ leave_register'[i].student_admin_number = lr.student.admin_number
                  /\ leave_register'[i].leave_type = lr.leave_type
                  /\ leave_register'[i].status # APPROVED]_vars

\* the call that returned was _determine_leave_type(text)
DeterminedLeaveType(text) ==
  /\ parser_call.method = "_determine_leave_type"
  /\ parser_call.text = text

\* C16: the category of a text is that of the first group it matches, in
\* the order special-leave keywords, overnight keywords, Friday-supper
\* keywords, day-leave keywords, a mention of Saturday, Sunday or the
\* weekend (Day Leave), and Overnight when it matches none
C16_FirstMatchingGroup ==
  parser_call.method = "_determine_leave_type" =>
    LET text == parser_call.text
        leave_type == parser_return.leave_type
        special == \E k \in SPECIAL_INDICATORS : IsIn(k, text)
        overnight == \E k \in OVERNIGHT_INDICATORS : IsIn(k, text)
        supper == \E k \in SUPPER_INDICATORS : IsIn(k, text)
        day_leave == \E k \in DAY_LEAVE_INDICATORS : IsIn(k, text)
        weekend == \E k \in WeekendWords : IsIn(k, text)
    IN  /\ special => leave_type = SPECIAL
        /\ (~ special /\ overnight) => leave_type = OVERNIGHT
        /\ (~ special /\ ~ overnight /\ supper) => leave_type = FRIDAY_SUPPER
        /\ (~ special /\ ~ overnight /\ ~ supper /\ day_leave) => leave_type = DAY_LEAVE
        /\ (~ special /\ ~ overnight /\ ~ supper /\ ~ day_leave /\ weekend)
             => leave_type = DAY_LEAVE
        /\ (~ special /\ ~ overnight /\ ~ supper /\ ~ day_leave /\ ~ weekend)
             => leave_type = OVERNIGHT

\* a text with an overnight keyword and a day-leave keyword was given the
\* category Overnight
C16_Witness ==
  /\ DeterminedLeaveType({"overnight", "day leave"})
  /\ parser_return.leave_type = OVERNIGHT

\* C17: with d = (W - weekday(today)) mod 7 for the weekday name W of the
\* date string, "this W" and W with no qualifier resolve to today + d days
\* (today itself when today is W) and "next W" resolves to today + d + 7
\* days, for every reference day
C17_WeekdayResolution ==
  (/\ parser_call.method = "_parse_relative_date"
   /\ parser_call.date_str.name \in DOMAIN weekdays) =>
    LET today == parser_call.today
        W == weekdays[parser_call.date_str.name]
        d == (W + 7 - weekday(today)) % 7
    IN  parser_return.date =
          IF parser_call.date_str.qualifier = "next"
            THEN today + (d + 7) * (24 * 60)
            ELSE today + d * (24 * 60)

\* C18: for every base date, whatever its weekday, the window built from a
\* single date is the template of the category: Overnight from 14:00 on
\* the base date to 18:50 on the day after, Friday Supper from 17:00 to
\* 21:00 on the base date, Day Leave and every other category from 09:00
\* to 17:00 on the base date
C18_CategoryTemplate ==
  parser_call.method = "_infer_date_range" =>
    LET day == date(parser_call.base_date)
        leave_type == parser_call.leave_type
    IN  IF leave_type = OVERNIGHT
          THEN /\ parser_return.start_date = dt(day, 14, 0)
               /\ parser_return.end_date = dt(day + 1, 18, 50)
        ELSE IF leave_type = FRIDAY_SUPPER
          THEN /\ parser_return.start_date = dt(day, 17, 0)
               /\ parser_return.end_date = dt(day, 21, 0)
        ELSE /\ parser_return.start_date = dt(day, 9, 0)
             /\ parser_return.end_date = dt(day, 17, 0)

\* the sender of the last housemaster command is a registered housemaster
HmAuthenticated(sender_identifier) ==
  \E h \in housemasters : sender_identifier \in {h.email, h.phone}

\* the keyword groups of process_housemaster_request, in the order of its
\* if/elif chain
HmKeywordGroups ==
  << {"cancel", "revoke"}, {"restrict", "restriction", "block"},
     {"balance", "how many"}, {"leave", "exeat"} >>

\* the number of the first group with a keyword in the text, 0 when none
FirstGroup(keywords) ==
  LET matching == { g \in DOMAIN HmKeywordGroups : HmKeywordGroups[g] \cap keywords # {} }
  IN  IF matching = {} THEN 0
      ELSE CHOOSE g \in matching : \A h \in matching : g <= h

\* the messages that each handler returns, by the number of its group
HandlerMessages(g) ==
  IF g = 1
    THEN {"Please include the student's admin number to cancel their leave.",
          "Leave cancelled", "Failed to cancel leave"}
  ELSE IF g = 2
    THEN {"Please include the student's admin number to set a restriction.",
          "Restriction placed", "Failed to set restriction"}
  ELSE IF g = 3
    THEN {"Please include the student's admin number to check their balance.",
          "Leave Balance"}
  ELSE IF g = 4
    THEN {"Please include the student's admin number to view their leave history.",
          "Leave History"}
  ELSE {}

\* C19: the command of an authenticated housemaster is executed by the
\* handler of the first keyword group it matches, in the order
\* cancel/revoke, restrict/restriction/block, balance/how many,
\* leave/exeat; a text that matches no group runs no handler: the result is
\* an error and the store is unchanged
C19_FirstMatchingIntent ==
  [][(nhm' # nhm /\ HmAuthenticated(hm_request'.sender_identifier)) =>
       LET g == FirstGroup(hm_request'.message_text.keywords)
       IN  IF g = 0
             THEN /\ hm_result' = HmResult("error", "I didn't understand your request")
                  /\ store' = store
             ELSE hm_result'.message \in HandlerMessages(g)]_vars

\* a command with "cancel" and "leave" was executed as a cancellation, and
\* the Approved entry of the student is cancelled
C19_Witness ==
  /\ HmAuthenticated(hm_request.sender_identifier)
  /\ hm_request.message_text.keywords = {"cancel", "leave"}
  /\ hm_result = HmResult("success", "Leave cancelled")
  /\ \E i \in DOMAIN leave_register :
       /\ leave_register[i].student_admin_number = hm_request.message_text.admin_number
       /\ leave_register[i].status = CANCELLED

\* the messages returned after a call of the store's cancellation or
\* restriction operation
StoreOperationMessages ==
  {"Leave cancelled", "Failed to cancel leave", "Restriction placed",
   "Failed to set restriction"}

\* C20: the cancellation and the restriction of the store are called only
\* for a sender that authenticates as housemaster and a text with a
\* 5-digit admin number on its own; when either is missing the status of
\* the result is error and register, balances and restrictions are
\* unchanged
C20_StoreCallsNeedAuthAndNumber ==
  [][nhm' # nhm =>
       LET authenticated == HmAuthenticated(hm_request'.sender_identifier)
           numbered == hm_request'.message_text.admin_number # "none"
       IN  /\ (~ authenticated \/ ~ numbered) =>
                /\ hm_result'.status = "error"
                /\ hm_result'.message \notin StoreOperationMessages
                /\ leave_register' = leave_register
                /\ leave_balances' = leave_balances
                /\ leave_restrictions' = leave_restrictions
           /\ (store' # store \/ hm_result'.message \in StoreOperationMessages) =>
                (authenticated /\ numbered)]_vars

\* a sender who is no housemaster asked to cancel the leave of student
\* 67890: the result is an error, the Approved Overnight entry of the
\* student is in the register and the Overnight balance is not refunded
C20_Witness ==
  /\ ~ HmAuthenticated(hm_request.sender_identifier)
  /\ hm_request.message_text.keywords = {"cancel"}
  /\ hm_request.message_text.admin_number = "67890"
  /\ hm_result.status = "error"
  /\ ApprovedRows(leave_register, "67890", OVERNIGHT) # {}
  /\ leave_balances["67890"].overnight = 0
  /\ leave_restrictions = {}

\* an active restriction of the student of request lr overlaps its window
OverlappingRestriction(lr) ==
  \E r \in ActiveRestrictions(lr.student.admin_number) :
     ~ (lr.end_date < r.start_date \/ lr.start_date > r.end_date)

C22_ReturnedStatusTerminal ==
  \A p \in Procs :
     (pc[p] = "done" /\ Decided(result[p])) =>
       /\ result[p].leave_request.status # PENDING
       /\ result[p].status = "approved" => result[p].leave_request.status = APPROVED
       /\ result[p].status = "rejected" => result[p].leave_request.status = REJECTED
       /\ result[p].status = "special_pending" =>
            result[p].leave_request.status = SPECIAL_PENDING

\* C23: every window that _extract_dates returns with both endpoints
\* present has its start before its end, for every category and for a
\* single date as for a range of two dates, the range whose second date is
\* the first or precedes it included
C23_StartBeforeEnd ==
  (/\ parser_call.method = "_extract_dates"
   /\ parser_return.start_date # NoDate
   /\ parser_return.end_date # NoDate) =>
    parser_return.start_date < parser_return.end_date

FirstNames == {"James"}

LastNames == {"Smith"}

\* C25: in a text with no number and no "for", where the name of the
\* student (a capitalized first name, with or without a capitalized last
\* name after it) comes right after a capitalized first word such as "Can",
\* the identifier is the name of the student, without the word before it
C25_NameWithoutLeadingWord ==
  (/\ parser_call.method = "_extract_student_identifier"
   /\ Len(parser_call.words) >= 2
   /\ parser_call.words[1] = "Can"
   /\ parser_call.words[2] \in FirstNames
   /\ \A i \in DOMAIN parser_call.words :
        parser_call.words[i] \notin AdminNumberWords \cup {"for"}) =>
    LET text == parser_call.words
    IN  parser_return.student_identifier =
          IF Len(text) >= 3 /\ text[3] \in LastNames
            THEN <<text[2], text[3]>>
            ELSE <<text[2]>>

\* the hm_id of a registered sender
HmIdOf(sender_identifier) ==
  (CHOOSE h \in housemasters : sender_identifier \in {h.email, h.phone}).hm_id

C27_LeaveUnitsConserved ==
  \A a \in AdminNumbers : \A t \in {OVERNIGHT, FRIDAY_SUPPER} :
     StoredBalance(a, t) + Cardinality(ApprovedRows(leave_register, a, t))
       = 1

(***************************************************************************)
(* C28: the lifecycle of a register entry                                  *)
(***************************************************************************)
\* C28: a register entry is created with status Approved and no departure;
\* entries are never removed; the only change of status is Approved to
\* Cancelled, and only of an entry with no departure logged; a departure is
\* logged only on an Approved entry that has none yet (so a Cancelled entry
\* never becomes Approved again and never gets a departure, a departure is
\* logged at most once and a departed entry is never cancelled); nothing
\* else of an entry changes
C28_EntryLifecycle ==
  [][/\ Len(leave_register') >= Len(leave_register)
     /\ \A i \in (Len(leave_register) + 1)..Len(leave_register') :
          /\ leave_register'[i].status = APPROVED
          /\ leave_register'[i].departure_timestamp = NoDate
     /\ \A i \in 1..Len(leave_register) :
          LET old == leave_register[i]
              new == leave_register'[i]
          IN  /\ new.status # old.status =>
                   /\ old.status = APPROVED
                   /\ new.status = CANCELLED
                   /\ old.departure_timestamp = NoDate
                   /\ new.departure_timestamp = NoDate
              /\ new.departure_timestamp # old.departure_timestamp =>
                   /\ old.departure_timestamp = NoDate
                   /\ old.status = APPROVED
                   /\ new.status = APPROVED
              /\ [new EXCEPT !.status = old.status,
                             !.departure_timestamp = old.departure_timestamp] = old]_vars

\* a departed entry that a later cancel command left Approved, next to an
\* entry of the same student that the command cancelled and that has no
\* departure
C28_Witness ==
  /\ hm_result = HmResult("success", "Leave cancelled")
  /\ \E i, j \in 1..Len(leave_register) :
       /\ leave_register[i].status = APPROVED
       /\ leave_register[i].departure_timestamp # NoDate
       /\ leave_register[j].status = CANCELLED
       /\ leave_register[j].departure_timestamp = NoDate
       /\ leave_register[j].student_admin_number = leave_register[i].student_admin_number

(***************************************************************************)
(* C29: the balance an approval reports                                    *)
(***************************************************************************)
\* C29: the remaining balance that the decision of an approved Overnight or
\* Friday Supper request reports is the stored balance of that category of
\* the student in the state that the commit of this approval leaves, also
\* when another approval or a cancellation for the student was committed
\* after this request read the student's record
C29_ReportedBalanceIsStored ==
  [][\A p \in Procs :
       (/\ pc[p] = "approve"
        /\ pc'[p] = "done"
        /\ result'[p].status = "approved"
        /\ leave_request[p].leave_type \in {OVERNIGHT, FRIDAY_SUPPER}) =>
         result'[p].new_balance
           = IF leave_request[p].leave_type = OVERNIGHT
               THEN leave_balances'[leave_request[p].student.admin_number].overnight
               ELSE leave_balances'[leave_request[p].student.admin_number].fridaySupper]_vars

(***************************************************************************)
(* C30: a cancel command with nothing to cancel                            *)
(***************************************************************************)
\* C30: a cancel command of an authenticated housemaster returns success
\* only if it changed an Approved entry without departure of the student it
\* names to Cancelled; when the student has no such entry the command
\* returns an error and leaves register, balances and restrictions as they
\* were
C30_CancelSuccessMeansCancelled ==
  [][(/\ nhm' # nhm
      /\ HmAuthenticated(hm_request'.sender_identifier)
      /\ Intent(hm_request'.message_text) = "cancel") =>
        LET a == hm_request'.message_text.admin_number
        IN  /\ hm_result'.status = "success" =>
                 \E i \in NewlyCancelled :
                    /\ leave_register[i].student_admin_number = a
                    /\ leave_register[i].departure_timestamp = NoDate
            /\ Cancellable(leave_register, a) = {} =>
                 /\ hm_result'.status = "error"
                 /\ UNCHANGED store]_vars

=============================================================================
